---- MODULE Spec2Model ----
(***************************************************************************)
(* Backlog burndown engine of ProjectEcho: run_tailwind_model of           *)
(* src/backlog_burndown.py, one action per code block of the function.     *)
(*                                                                         *)
(* Hours are Python floats in the source.  They are modelled as exact      *)
(* rationals held as integers in ticks of 1/Scale hour; Scale is chosen so *)
(* that every product and quotient the function computes on the modelled   *)
(* inputs is an integer: utilization is given in 1/UtilDen, the two share  *)
(* sliders in 1/PctDen, and 2080/12 and 1/3 divide Scale.                  *)
(* Optional arguments (float | None) are <<>> for None and <<v>> for v;    *)
(* the Backlog_Months column is <<>> for None and the fraction <<n, d>>    *)
(* for n / d.                                                              *)
(*                                                                         *)
(* build_backlog_views (classifier and eligibility scheduler) is the       *)
(* action BuildViews; the unpacking of its result by src/app.py is Unpack. *)
(* The raw dataframe is a sequence of work orders, each with its           *)
(* per-assignee (allocated, logged) rows; dates are <<year, month, day>>.  *)
(***************************************************************************)
EXTENDS Integers, Sequences, FiniteSets, TLC

VARIABLES
    df,               \* the raw records, one entry per work order
    today,            \* pd.Timestamp.today().normalize()
    views,            \* the result of build_backlog_views
    args,             \* the arguments of the call (never assigned by the function)
    tw_shift_map,     \* the caller's dict, passed by reference
    pc,               \* "views", "unpack", "start", "loop", "done"
    month,            \* the last month whose row has been appended
    TW_b, NANC_b, AC_b,
    tailwind_active,
    results_reduced,  \* the rows appended so far
    locals,           \* the locals of the last loop iteration
    shifted_out,      \* history: hours the applied shifts took out of NANC_b
    shift_map_in,     \* history: the dict as it was when the caller passed it
    prev_results      \* the rows an earlier call returned, <<>> before any

vars == <<df, today, views, args, tw_shift_map, pc, month, TW_b, NANC_b, AC_b,
          tailwind_active, results_reduced, locals, shifted_out, shift_map_in,
          prev_results>>

engine_vars == <<TW_b, NANC_b, AC_b, tailwind_active, results_reduced, locals,
                 shifted_out, month>>
view_vars == <<df, today, views>>

----------------------------------------------------------------------------
(* Bounds of the model *)

MaxMonths == 3
MaxShiftKey == 2
MaxOrders == 2

(* Units *)
UtilDen == 100
PctDen == 20
Scale == 12 * UtilDen * PctDen
HoursPerYear == 2080
MonthsPerYear == 12
Month13 == 13

None == <<>>
Some(v) == <<v>>

Min(a, b) == IF a <= b THEN a ELSE b
Max(a, b) == IF a >= b THEN a ELSE b

(* float(hours) *)
Ticks(h) == h * Scale

(* x if x is not None else d *)
OrElse(x, d) == IF x = None THEN d ELSE x[1]

(* dict.get(k, 0.0) *)
Get(map, k) == IF k \in DOMAIN map THEN map[k] ELSE 0

----------------------------------------------------------------------------
(* Initialisation of the buckets and the capacities *)

InitTW(a) == Ticks(a.total_TW_backlog)
InitNANC(a) == Ticks(a.total_NANC_backlog)
(* variant: the residual leaves the NANC bucket in the Actionable bucket *)
InitAC_NoNANC(a) ==
    LET ac == Ticks(a.total_backlog - a.total_TW_backlog)
    IN  IF ac < 0 THEN 0 ELSE ac

InitAC(a) ==
    LET ac == Ticks(a.total_backlog - a.total_TW_backlog - a.total_NANC_backlog)
    IN  IF ac < 0 THEN 0 ELSE ac

(* variant: the head count is not derated by the utilization *)
TW_capacity_NoUtilization(a) ==
    a.tw_headcount * HoursPerYear * UtilDen * (Scale \div (MonthsPerYear * UtilDen))

TW_capacity(a) ==
    a.tw_headcount * HoursPerYear * a.utilization * (Scale \div (MonthsPerYear * UtilDen))
Q2_capacity_full(a) ==
    a.q2_headcount * HoursPerYear * a.utilization * (Scale \div (MonthsPerYear * UtilDen))

(* variant: the quotient is formed whatever the capacity *)
BacklogMonths_Unguarded(total_b, cap) == <<total_b, cap>>

(* (total_b / cap) if cap > 0 else None *)
BacklogMonths(total_b, cap) == IF cap > 0 THEN <<total_b, cap>> ELSE None

(* backlog_months <= removal_threshold_months, for a non-None backlog_months *)
AtOrBelow(bm, thr) == bm[1] <= thr * bm[2]

Row(m, total_b, tw, nanc, ac, cap, bm, active) ==
    [Month |-> m, Total_Backlog |-> total_b, TW_Backlog |-> tw,
     NANC_Backlog |-> nanc, AC_Backlog |-> ac, Total_Capacity |-> cap,
     Backlog_Months |-> bm, Tailwind_Active |-> active]

(* variant: month 0 is added into month 1 and left in the dict *)
FoldMonth0_KeepMonth0(map) ==
    IF 0 \in DOMAIN map
    THEN [k \in DOMAIN map \cup {1} |->
            IF k = 1 THEN Get(map, 1) + map[0] ELSE map[k]]
    ELSE map

(* variant: month 0 is popped and its hours are dropped *)
FoldMonth0_DropMonth0(map) ==
    IF 0 \in DOMAIN map
    THEN [k \in DOMAIN map \ {0} |-> map[k]]
    ELSE map

(* if 0 in tw_shift_map: tw_shift_map[1] = tw_shift_map.get(1, 0.0) + tw_shift_map.pop(0) *)
FoldMonth0(map) ==
    IF 0 \in DOMAIN map
    THEN [k \in (DOMAIN map \ {0}) \cup {1} |->
            IF k = 1 THEN Get(map, 1) + map[0] ELSE map[k]]
    ELSE map

----------------------------------------------------------------------------
(* One iteration of the loop over months 1..N *)

(* variant: the alternate demand starts one month late *)
ActiveQtrDemand_AfterMonth13(a, active, m) ==
    IF active /\ a.modify_demand_after_12_months /\ m > Month13
    THEN OrElse(a.post_12_qtr_demand_total, a.qtr_demand_total)
    ELSE a.qtr_demand_total

ActiveQtrDemand(a, active, m) ==
    IF active /\ a.modify_demand_after_12_months /\ m >= Month13
    THEN OrElse(a.post_12_qtr_demand_total, a.qtr_demand_total)
    ELSE a.qtr_demand_total

(* variant: the capacity is halved in the reduction month only *)
TWCapCurrent_ThatMonthOnly(a, active, m) ==
    IF active
    THEN IF a.tw_capacity_reduction_month # 0 /\ m = a.tw_capacity_reduction_month
         THEN TW_capacity(a) \div 2
         ELSE TW_capacity(a)
    ELSE 0

TWCapCurrent(a, active, m) ==
    IF active
    THEN IF a.tw_capacity_reduction_month # 0 /\ m >= a.tw_capacity_reduction_month
         THEN TW_capacity(a) \div 2
         ELSE TW_capacity(a)
    ELSE 0

(* qtr * share * (1 / 3), qtr in hours and share in 1/PctDen *)
TWIncomingCurrent(a, active, m) ==
    IF active
    THEN ActiveQtrDemand(a, active, m) * a.tw_share_of_demand * (Scale \div (3 * PctDen))
    ELSE 0

ACIncomingCurrent(a, active, m) ==
    IF active
    THEN ActiveQtrDemand(a, active, m) * (PctDen - a.tw_share_of_demand)
            * (Scale \div (3 * PctDen))
    ELSE IF a.model_diff_demand_after_removal
         THEN OrElse(a.post_removal_qtr_demand_total, a.qtr_demand_total) * (Scale \div 3)
         ELSE 0

(* variant: the slider split is kept after the removal *)
Q2CapToAC_AlwaysSplit(a, active) ==
    (Q2_capacity_full(a) \div PctDen) * a.q2_capacity_to_q2_pct

(* variant: Actionable is given the whole permanent capacity in every month *)
Q2CapToAC_Whole(a, active) == Q2_capacity_full(a)

Q2CapToAC(a, active) ==
    IF active
    THEN (Q2_capacity_full(a) \div PctDen) * a.q2_capacity_to_q2_pct
    ELSE Q2_capacity_full(a)

Q2CapToTW(a, active) ==
    IF active
    THEN (Q2_capacity_full(a) \div PctDen) * (PctDen - a.q2_capacity_to_q2_pct)
    ELSE 0

ACBurn(ac, cap_to_ac) == Min(ac, cap_to_ac)

(* variant: the whole Actionable allocation is also offered to Tailwind *)
UnusedACCapacity_Whole(cap_to_ac, ac_burn) == Max(cap_to_ac, 0)

UnusedACCapacity(cap_to_ac, ac_burn) == Max(cap_to_ac - ac_burn, 0)

TWBurn(tw, tw_cap, eff_q2_to_tw) == Min(tw, tw_cap + eff_q2_to_tw)

(* variant: the incoming demand is left out of the balance *)
ApplyBurn_NoIncoming(b, burn, incoming) == Max(b - burn, 0)

(* max(balance - burn + incoming, 0.0) *)
ApplyBurn(b, burn, incoming) == Max(b - burn + incoming, 0)

(* the shift looked up for the month; 0 when the lookup is not made *)
ShiftOf(active, map, m) == IF active THEN Ticks(Get(map, m)) ELSE 0

(* variant: the scheduled hours are moved without the min against the balance *)
ActualShift_NoMin(nanc, shift) == IF shift > 0 THEN shift ELSE 0

ActualShift(nanc, shift) == IF shift > 0 THEN Min(nanc, shift) ELSE 0

(* variant: the shifted hours are added to Actionable *)
ShiftTarget_Actionable(active) == "AC"

(* the bucket the shifted hours are added to *)
ShiftTarget(active) == "TW"

(* variant: strict comparison against the threshold *)
RemovalTriggers_Strict(active, bm, thr) ==
    active /\ bm # None /\ bm[1] < thr * bm[2]

RemovalTriggers(active, bm, thr) ==
    active /\ bm # None /\ AtOrBelow(bm, thr)

(* effective_monthly of the removal month *)
EffectiveMonthly(a) ==
    OrElse(a.post_removal_qtr_demand_total, a.qtr_demand_total) * (Scale \div 3)

(* the locals of the iteration for month m, from the state at its start *)
MonthLocals(a, map, m, tw0, nanc0, ac0, active) ==
    LET TW_cap_current == TWCapCurrent(a, active, m)
        Q2_cap_current == Q2_capacity_full(a)
        TW_incoming_current == TWIncomingCurrent(a, active, m)
        AC_incoming_current == ACIncomingCurrent(a, active, m)
        Q2_cap_to_AC == Q2CapToAC(a, active)
        Q2_cap_to_TW == Q2CapToTW(a, active)
        AC_burn == ACBurn(ac0, Q2_cap_to_AC)
        AC_b_after_burn == ac0 - AC_burn
        unused_AC_capacity == UnusedACCapacity(Q2_cap_to_AC, AC_burn)
        effective_Q2_cap_to_TW == Q2_cap_to_TW + unused_AC_capacity
        TW_burn == TWBurn(tw0, TW_cap_current, effective_Q2_cap_to_TW)
        tw1 == ApplyBurn(tw0, TW_burn, TW_incoming_current)
        ac1 == ApplyBurn(ac0, AC_burn, AC_incoming_current)
        shift == ShiftOf(active, map, m)
        actual_shift == ActualShift(nanc0, shift)
        target == ShiftTarget(active)
        nanc2 == nanc0 - actual_shift
        tw2 == IF target = "TW" THEN tw1 + actual_shift ELSE tw1
        ac2 == IF target = "AC" THEN ac1 + actual_shift ELSE ac1
        total_b == tw2 + nanc2 + ac2
        total_cap_current == TW_cap_current + Q2_cap_current
        backlog_months == BacklogMonths(total_b, total_cap_current)
        removed == RemovalTriggers(active, backlog_months, a.removal_threshold_months)
        tw3 == IF removed /\ a.model_diff_demand_after_removal
               THEN Max(tw2 - TW_incoming_current, 0) ELSE tw2
        ac3 == IF removed /\ a.model_diff_demand_after_removal
               THEN Max(ac2 + (EffectiveMonthly(a) - AC_incoming_current), 0) ELSE ac2
    IN  [started_active |-> active,
         TW_b_start |-> tw0, NANC_b_start |-> nanc0, AC_b_start |-> ac0,
         TW_cap_current |-> TW_cap_current, Q2_cap_current |-> Q2_cap_current,
         TW_incoming_current |-> TW_incoming_current,
         AC_incoming_current |-> AC_incoming_current,
         Q2_cap_to_AC |-> Q2_cap_to_AC, Q2_cap_to_TW |-> Q2_cap_to_TW,
         AC_burn |-> AC_burn, AC_b_after_burn |-> AC_b_after_burn,
         unused_AC_capacity |-> unused_AC_capacity,
         effective_Q2_cap_to_TW |-> effective_Q2_cap_to_TW,
         TW_burn |-> TW_burn,
         TW_b_applied |-> tw1, AC_b_applied |-> ac1,
         shift |-> shift, actual_shift |-> actual_shift,
         TW_b_shifted |-> tw2, NANC_b_shifted |-> nanc2, AC_b_shifted |-> ac2,
         total_b |-> total_b, total_cap_current |-> total_cap_current,
         backlog_months |-> backlog_months,
         removed |-> removed,
         TW_b_transferred |-> IF removed THEN tw3 ELSE 0,
         AC_b_before_transfer |-> ac3]

(* variant: the flag is recomputed from the check of the month *)
ActiveAfter_Recomputed(active, removed) == ~removed

(* tailwind_active after the removal check *)
ActiveAfter(active, removed) == IF removed THEN FALSE ELSE active

TWAfter(l) == IF l.removed THEN 0 ELSE l.TW_b_shifted
ACAfter(l) == IF l.removed THEN l.AC_b_before_transfer + l.TW_b_transferred
              ELSE l.AC_b_shifted

(* variant: the removal month keeps the capacity of the check *)
RowCapacity_NoRecompute(a, l) == l.total_cap_current

(* total_cap_current of the row: Q2-only capacity in the removal month *)
RowCapacity(a, l) == IF l.removed THEN Q2_capacity_full(a) ELSE l.total_cap_current

(* the row appended for month m *)
MonthRow(a, m, l) ==
    LET tw == TWAfter(l)
        ac == ACAfter(l)
        nanc == l.NANC_b_shifted
        total_b == IF l.removed THEN tw + nanc + ac ELSE l.total_b
        cap == RowCapacity(a, l)
        bm == IF l.removed THEN BacklogMonths(total_b, cap) ELSE l.backlog_months
    IN  Row(m, total_b, tw, nanc, ac, cap, bm, ActiveAfter(l.started_active, l.removed))

NoLocals == MonthLocals(
    [total_backlog |-> 0, total_TW_backlog |-> 0, total_NANC_backlog |-> 0,
     tw_headcount |-> 0, q2_headcount |-> 0, utilization |-> 0,
     qtr_demand_total |-> 0, q2_capacity_to_q2_pct |-> 0, tw_share_of_demand |-> 0,
     months |-> 0, removal_threshold_months |-> 0, tw_capacity_reduction_month |-> 0,
     model_diff_demand_after_removal |-> FALSE, post_removal_qtr_demand_total |-> None,
     modify_demand_after_12_months |-> FALSE, post_12_qtr_demand_total |-> None],
    <<>>, 0, 0, 0, 0, TRUE)

----------------------------------------------------------------------------
(* build_backlog_views: classifier and eligibility scheduler *)

Wedge == "CD - Wedge"
ProductSDK == "CD - Product SDK"
PendingGA == "Pending GA"
ProServ == "PROSERV"
TerminalStatuses ==
    {"Cancelled", "Completed", "Customer Requested Cancellation", "In Question"}

(* allWOs *)
InScope(w) ==
    /\ w.team \in {Wedge, ProductSDK}
    /\ w.status \notin TerminalStatuses
    /\ w.subtype = ProServ

(* allTWWOs *)
IsTW(w) ==
    /\ w.team = Wedge
    /\ w.status \notin TerminalStatuses
    /\ w.subtype = ProServ

(* variant: the Blocked query does not name the delivery team *)
IsNANC_AnyTeam(w) ==
    /\ w.status = PendingGA
    /\ w.subtype = ProServ

(* allNANCWOs *)
IsNANC(w) ==
    /\ w.team = ProductSDK
    /\ w.status = PendingGA
    /\ w.subtype = ProServ

RECURSIVE SumFn(_, _)
SumFn(f, n) == IF n = 0 THEN 0 ELSE f[n] + SumFn(f, n - 1)

(* groupby("Work Order Code") sums of the assignee rows *)
Allocated_Hours(w) == SumFn([i \in DOMAIN w.hours |-> w.hours[i][1]], Len(w.hours))
Hours_Logged(w) == SumFn([i \in DOMAIN w.hours |-> w.hours[i][2]], Len(w.hours))
Backlog(w) == Allocated_Hours(w) - Hours_Logged(w)

CodesOf(data, cohort) == {c \in DOMAIN data : cohort[c]}

(* Allocated_Hours.sum() - Hours_Logged.sum() over the rows of a cohort *)
CohortBacklog(data, codes) ==
    SumFn([c \in DOMAIN data |-> IF c \in codes THEN Backlog(data[c]) ELSE 0], Len(data))

DateLT(a, b) ==
    \/ a[1] < b[1]
    \/ a[1] = b[1] /\ a[2] < b[2]
    \/ a[1] = b[1] /\ a[2] = b[2] /\ a[3] < b[3]

(* Timestamp.to_period("M").ordinal: months since 1970-01 *)
PeriodOrdinal(date) == (date[1] - 1970) * 12 + (date[2] - 1)

(* (today + pd.offsets.MonthBegin(1)).normalize() *)
FirstOfNextMonth(t) ==
    IF t[2] = 12 THEN <<t[1] + 1, 1, 1>> ELSE <<t[1], t[2] + 1, 1>>

(* variant: dates on today are moved as well *)
ClampPast_NonStrict(date, t) ==
    IF DateLT(date, t) \/ date = t THEN FirstOfNextMonth(t) ELSE date

(* variant: past dates are left where they are *)
ClampPast_Unclamped(date, t) == date

(* a go-live date before today becomes the first day of the month after today *)
ClampPast(date, t) == IF DateLT(date, t) THEN FirstOfNextMonth(t) ELSE date

GoLive_Month_Offset(date, t) == PeriodOrdinal(date) - PeriodOrdinal(t)

(* variant: the shift is scheduled in the go-live month itself *)
Shift_Month_NoDelay(offset) == Max(offset, 1)

(* clip(lower=0) + 1, then clip(lower=1) *)
Shift_Month(offset) == Max(Max(offset, 0) + 1, 1)

(* variant: orders are kept whatever their backlog *)
IsEligible_AnyBacklog(w) ==
    /\ w.link # None
    /\ w.date # None

(* variant: a go-live date is enough, with or without a contingency link *)
IsEligible_NoLink(w) ==
    /\ w.date # None
    /\ Backlog(w) > 0

(* the filter of the eligible frame, on a grouped Blocked work order *)
IsEligible(w) ==
    /\ w.link # None
    /\ w.date # None
    /\ Backlog(w) > 0

(* the eligible frame, keyed by work order *)
EligibleFrame(data, t) ==
    [c \in {k \in DOMAIN data : IsNANC(data[k]) /\ IsEligible(data[k])} |->
        LET golive == ClampPast(data[c].date, t)
            offset == GoLive_Month_Offset(golive, t)
        IN  [Backlog |-> Backlog(data[c]),
             GoLive |-> golive,
             GoLive_Month_Offset |-> offset,
             Shift_Month |-> Shift_Month(offset)]]

(* groupby("Shift_Month")["Backlog"].sum() as a dict, month 0 pushed into 1 *)
ShiftSchedule(elig, n) ==
    FoldMonth0(
        [m \in {elig[c].Shift_Month : c \in DOMAIN elig} |->
            SumFn([c \in 1..n |->
                    IF c \in DOMAIN elig /\ elig[c].Shift_Month = m
                    THEN elig[c].Backlog ELSE 0], n)])

(* np.select over the grouped in-scope work orders *)
Work_Category(w) ==
    IF w.team = Wedge THEN "Tailwind"
    ELSE IF w.team = ProductSDK /\ w.status = PendingGA THEN "Non-Actionable"
    ELSE "Actionable"

BuildViewsResult(data, t) ==
    LET allWOs == {c \in DOMAIN data : InScope(data[c])}
        allTWWOs == {c \in DOMAIN data : IsTW(data[c])}
        allNANCWOs == {c \in DOMAIN data : IsNANC(data[c])}
        eligible == EligibleFrame(data, t)
    IN  [allWOs |-> allWOs,
         allTWWOs |-> allTWWOs,
         allNANCWOs |-> allNANCWOs,
         total_backlog |-> CohortBacklog(data, allWOs),
         total_TW_backlog |-> CohortBacklog(data, allTWWOs),
         eligible |-> eligible,
         tw_shift_map |-> ShiftSchedule(eligible, Len(data)),
         allwo_export |-> [c \in allWOs |-> Work_Category(data[c])]]

----------------------------------------------------------------------------
(* The inputs of the modelled calls *)

TWBacklogs == {-100, 0, 300}
NANCBacklogs == {-100, 0, 200}
TotalBacklogs == {400, 900}
Headcounts == {0, 1}
Utilizations == {78}
Demands == {<<0, 0>>, <<300, 0>>, <<300, 10>>}
CapacityPcts == {10, 20}
Horizons == 1..MaxMonths
ShiftHours == {150}
ShiftMaps == UNION {[ks -> ShiftHours] : ks \in SUBSET (0..MaxShiftKey)}
Thresholds == {0, 2}
ReductionMonths == {0, 2}
RemovalDemands == {<<FALSE, None>>, <<TRUE, None>>, <<TRUE, Some(600)>>}
After12Demands == {<<FALSE, None>>}

(* the engine before a call *)
EngineIdle ==
    /\ month = 0
    /\ TW_b = 0 /\ NANC_b = 0 /\ AC_b = 0
    /\ tailwind_active = TRUE
    /\ results_reduced = <<>>
    /\ locals = NoLocals
    /\ shifted_out = 0
    /\ prev_results = <<>>

(* a call made without build_backlog_views *)
NoData ==
    /\ df = <<>>
    /\ today = <<1970, 1, 1>>
    /\ views = <<>>

Init ==
    /\ \E tw \in TWBacklogs, nanc \in NANCBacklogs, tot \in TotalBacklogs,
          twh \in Headcounts, q2h \in Headcounts, u \in Utilizations,
          d \in Demands, p \in CapacityPcts, n \in Horizons,
          thr \in Thresholds, red \in ReductionMonths,
          rd \in RemovalDemands, ad \in After12Demands :
            args = [total_backlog |-> tot, total_TW_backlog |-> tw,
                    total_NANC_backlog |-> nanc,
                    tw_headcount |-> twh, q2_headcount |-> q2h, utilization |-> u,
                    qtr_demand_total |-> d[1], q2_capacity_to_q2_pct |-> p,
                    tw_share_of_demand |-> d[2], months |-> n,
                    removal_threshold_months |-> thr,
                    tw_capacity_reduction_month |-> red,
                    model_diff_demand_after_removal |-> rd[1],
                    post_removal_qtr_demand_total |-> rd[2],
                    modify_demand_after_12_months |-> ad[1],
                    post_12_qtr_demand_total |-> ad[2]]
    /\ tw_shift_map \in ShiftMaps
    /\ shift_map_in = tw_shift_map
    /\ pc = "start"
    /\ EngineIdle
    /\ NoData

(* Calls around Scenario A of the specification: only the temporary team
   holds backlog and capacity, no demand, empty schedule *)
ScenarioBacklogs == {500, 1000, 1500}
ScenarioHeadcounts == {3, 6, 9}
ScenarioUtilizations == {78, 100}
ScenarioThresholds == {0, 4}

InitScenarioA ==
    /\ \E tw \in ScenarioBacklogs, twh \in ScenarioHeadcounts,
          u \in ScenarioUtilizations, n \in Horizons, thr \in ScenarioThresholds :
            args = [total_backlog |-> tw, total_TW_backlog |-> tw,
                    total_NANC_backlog |-> 0,
                    tw_headcount |-> twh, q2_headcount |-> 0, utilization |-> u,
                    qtr_demand_total |-> 0, q2_capacity_to_q2_pct |-> PctDen,
                    tw_share_of_demand |-> 0, months |-> n,
                    removal_threshold_months |-> thr,
                    tw_capacity_reduction_month |-> 0,
                    model_diff_demand_after_removal |-> FALSE,
                    post_removal_qtr_demand_total |-> None,
                    modify_demand_after_12_months |-> FALSE,
                    post_12_qtr_demand_total |-> None]
    /\ tw_shift_map = <<>>
    /\ shift_map_in = tw_shift_map
    /\ pc = "start"
    /\ EngineIdle
    /\ NoData

(* Raw data for build_backlog_views *)
Teams == {Wedge, ProductSDK, "CD - Core"}
Statuses == {PendingGA, "In Progress", "Cancelled"}
Todays == {<<2025, 12, 15>>, <<2026, 1, 1>>}
GoLiveDates == {<<2025, 11, 30>>, <<2025, 12, 1>>, <<2025, 12, 31>>,
                <<2026, 1, 1>>, <<2026, 2, 10>>}
Links == {None, Some("WO-PLATFORM")}
(* one assignee with 100 h left, one with nothing left, two assignees of
   which the second over-logs *)
AssigneeRows == {<< <<100, 0>> >>, << <<40, 40>> >>, << <<100, 0>>, <<0, 150>> >>}

ClassOrders ==
    [team : Teams, status : Statuses, subtype : {ProServ},
     link : {Some("WO-PLATFORM")}, date : {<<2026, 2, 10>>},
     hours : {<< <<100, 0>> >>}]
    \cup
    [team : {Wedge, ProductSDK}, status : {PendingGA}, subtype : {"SUBSCRIPTION"},
     link : {Some("WO-PLATFORM")}, date : {<<2026, 2, 10>>},
     hours : {<< <<100, 0>> >>}]

BlockedOrders ==
    [team : {ProductSDK}, status : {PendingGA}, subtype : {ProServ},
     link : Links, date : {None} \cup GoLiveDates, hours : AssigneeRows]

Frames(orders) == UNION {[1..n -> orders] : n \in 1..MaxOrders}

DefaultArgs ==
    [total_backlog |-> 0, total_TW_backlog |-> 0, total_NANC_backlog |-> 0,
     tw_headcount |-> 6, q2_headcount |-> 2, utilization |-> 78,
     qtr_demand_total |-> 1440, q2_capacity_to_q2_pct |-> PctDen,
     tw_share_of_demand |-> 0, months |-> MaxMonths,
     removal_threshold_months |-> 4, tw_capacity_reduction_month |-> 0,
     model_diff_demand_after_removal |-> FALSE, post_removal_qtr_demand_total |-> None,
     modify_demand_after_12_months |-> FALSE, post_12_qtr_demand_total |-> None]

InitViews ==
    /\ df \in Frames(ClassOrders \cup BlockedOrders)
    /\ today \in Todays
    /\ views = <<>>
    /\ args = DefaultArgs
    /\ tw_shift_map = <<>>
    /\ shift_map_in = <<>>
    /\ pc = "views"
    /\ EngineIdle

(* views = build_backlog_views(df) *)
BuildViews ==
    /\ pc = "views"
    /\ views' = BuildViewsResult(df, today)
    /\ pc' = "unpack"
    /\ UNCHANGED <<df, today, args, tw_shift_map, shift_map_in, prev_results>>
    /\ UNCHANGED engine_vars

(* The dashboard run: build the views, unpack them, call the model *)
PipelineDates == {None, <<2025, 12, 1>>, <<2025, 12, 31>>, <<2026, 1, 1>>}
PipelineRows == {<< <<100, 0>> >>, << <<100, 0>>, <<0, 150>> >>}
PipelineOrders ==
    [team : {ProductSDK}, status : {PendingGA}, subtype : {ProServ},
     link : Links, date : PipelineDates, hours : PipelineRows]
    \cup
    [team : {Wedge, ProductSDK}, status : {"In Progress"}, subtype : {ProServ},
     link : {None}, date : {None}, hours : {<< <<100, 0>> >>}]
PipelineHeadcounts == {0, 1}
PipelineThresholds == {0, 2}

InitPipeline ==
    /\ df \in Frames(PipelineOrders)
    /\ today \in Todays
    /\ views = <<>>
    /\ \E twh \in PipelineHeadcounts, thr \in PipelineThresholds :
            args = [DefaultArgs EXCEPT !.tw_headcount = twh, !.q2_headcount = 1,
                                       !.qtr_demand_total = 0,
                                       !.removal_threshold_months = thr]
    /\ tw_shift_map = <<>>
    /\ shift_map_in = <<>>
    /\ pc = "views"
    /\ EngineIdle

(* the totals and the schedule the dashboard hands to run_tailwind_model *)
Unpack ==
    /\ pc = "unpack"
    /\ args' = [args EXCEPT
                    !.total_backlog = views.total_backlog,
                    !.total_TW_backlog = views.total_TW_backlog,
                    !.total_NANC_backlog = CohortBacklog(df, views.allNANCWOs)]
    /\ tw_shift_map' = views.tw_shift_map
    /\ shift_map_in' = views.tw_shift_map
    /\ pc' = "start"
    /\ UNCHANGED <<prev_results>>
    /\ UNCHANGED engine_vars
    /\ UNCHANGED view_vars

(* Buckets, capacities, the month-0 row and the fold of a month-0 shift *)
Start ==
    /\ pc = "start"
    /\ TW_b' = InitTW(args)
    /\ NANC_b' = InitNANC(args)
    /\ AC_b' = InitAC(args)
    /\ tailwind_active' = TRUE
    /\ LET total_cap_m0 == TW_capacity(args) + Q2_capacity_full(args)
           total_b0 == TW_b' + NANC_b' + AC_b'
       IN  results_reduced' = <<Row(0, total_b0, TW_b', NANC_b', AC_b', total_cap_m0,
                                    BacklogMonths(total_b0, total_cap_m0), TRUE)>>
    /\ tw_shift_map' = FoldMonth0(tw_shift_map)
    /\ pc' = "loop"
    /\ UNCHANGED <<args, month, locals, shifted_out, shift_map_in, prev_results>>
    /\ UNCHANGED view_vars

(* variant: the loop is left once the temporary team has been removed *)
InRange_UntilRemoval(m, n, active) == m < n /\ active

(* range(1, months + 1) has a value after m *)
InRange(m, n, active) == m < n

(* One pass of: for month in range(1, months + 1) *)
Step ==
    /\ pc = "loop"
    /\ InRange(month, args.months, tailwind_active)
    /\ LET m == month + 1
           l == MonthLocals(args, tw_shift_map, m, TW_b, NANC_b, AC_b, tailwind_active)
       IN  /\ month' = m
           /\ locals' = l
           /\ TW_b' = TWAfter(l)
           /\ NANC_b' = l.NANC_b_shifted
           /\ AC_b' = ACAfter(l)
           /\ tailwind_active' = ActiveAfter(tailwind_active, l.removed)
           /\ results_reduced' = Append(results_reduced, MonthRow(args, m, l))
           /\ shifted_out' = shifted_out +
                (IF tailwind_active /\ Get(tw_shift_map, m) > 0
                 THEN Min(NANC_b, Ticks(Get(tw_shift_map, m))) ELSE 0)
    /\ UNCHANGED <<args, tw_shift_map, pc, shift_map_in, prev_results>>
    /\ UNCHANGED view_vars

(* return pd.DataFrame(results_reduced) *)
Return ==
    /\ pc = "loop"
    /\ ~InRange(month, args.months, tailwind_active)
    /\ pc' = "done"
    /\ UNCHANGED <<args, tw_shift_map, shift_map_in, prev_results>>
    /\ UNCHANGED engine_vars
    /\ UNCHANGED view_vars

Next == Start \/ Step \/ Return

Spec == Init /\ [][Next]_vars

SpecScenarioA == InitScenarioA /\ [][Next]_vars

(* Runs past the first year, with and without the after-12-months option *)
LongHorizon == Month13 + 1
LongDemands == {<<300, 0>>, <<1440, 10>>}
LongAfter12Demands == {<<FALSE, None>>, <<FALSE, Some(600)>>, <<TRUE, None>>, <<TRUE, Some(600)>>}

InitLongHorizon ==
    /\ \E twh \in Headcounts, q2h \in Headcounts, d \in LongDemands,
          ad \in LongAfter12Demands, thr \in Thresholds :
            args = [DefaultArgs EXCEPT !.total_backlog = 900,
                                       !.total_TW_backlog = 300,
                                       !.total_NANC_backlog = 200,
                                       !.tw_headcount = twh, !.q2_headcount = q2h,
                                       !.qtr_demand_total = d[1],
                                       !.tw_share_of_demand = d[2],
                                       !.q2_capacity_to_q2_pct = 10,
                                       !.months = LongHorizon,
                                       !.removal_threshold_months = thr,
                                       !.modify_demand_after_12_months = ad[1],
                                       !.post_12_qtr_demand_total = ad[2]]
    /\ tw_shift_map \in ShiftMaps
    /\ shift_map_in = tw_shift_map
    /\ pc = "start"
    /\ EngineIdle
    /\ NoData

SpecLongHorizon == InitLongHorizon /\ [][Next]_vars

(* The statements of the function run one after the other to the return *)
InitFair ==
    /\ \E twh \in Headcounts, q2h \in Headcounts, d \in Demands, n \in Horizons,
          thr \in Thresholds :
            args = [DefaultArgs EXCEPT !.total_backlog = 900,
                                       !.total_TW_backlog = 300,
                                       !.total_NANC_backlog = 200,
                                       !.tw_headcount = twh, !.q2_headcount = q2h,
                                       !.qtr_demand_total = d[1],
                                       !.tw_share_of_demand = d[2],
                                       !.months = n,
                                       !.removal_threshold_months = thr]
    /\ tw_shift_map \in ShiftMaps
    /\ shift_map_in = tw_shift_map
    /\ pc = "start"
    /\ EngineIdle
    /\ NoData

SpecFair == InitFair /\ [][Next]_vars /\ WF_vars(Next)

(* Direct calls of run_tailwind_model, which take any numbers *)
DirectHorizons == {-1, 0, 1, 2}
DirectHeadcounts == {-1, 0, 1}

InitDirectCall ==
    /\ \E tw \in TWBacklogs, nanc \in NANCBacklogs, twh \in DirectHeadcounts,
          q2h \in DirectHeadcounts, n \in DirectHorizons :
            args = [DefaultArgs EXCEPT !.total_backlog = 900,
                                       !.total_TW_backlog = tw,
                                       !.total_NANC_backlog = nanc,
                                       !.tw_headcount = twh, !.q2_headcount = q2h,
                                       !.months = n]
    /\ tw_shift_map \in ShiftMaps
    /\ shift_map_in = tw_shift_map
    /\ pc = "start"
    /\ EngineIdle
    /\ NoData

SpecDirectCall == InitDirectCall /\ [][Next]_vars

(* A second call with the same arguments: either the very dict object the first
   call was given (as that call left it) or an equal copy of what it was given *)
Rerun ==
    /\ pc = "done"
    /\ prev_results = <<>>
    /\ prev_results' = results_reduced
    /\ \E map \in {tw_shift_map, shift_map_in} :
            /\ tw_shift_map' = map
            /\ shift_map_in' = map
    /\ month' = 0
    /\ TW_b' = 0 /\ NANC_b' = 0 /\ AC_b' = 0
    /\ tailwind_active' = TRUE
    /\ results_reduced' = <<>>
    /\ locals' = NoLocals
    /\ shifted_out' = 0
    /\ pc' = "start"
    /\ UNCHANGED <<args>>
    /\ UNCHANGED view_vars

NextRerun == Start \/ Step \/ Return \/ Rerun

SpecRerun == Init /\ [][NextRerun]_vars

NextViews == BuildViews

NextPipeline == BuildViews \/ Unpack \/ Start \/ Step \/ Return

SpecPipeline == InitPipeline /\ [][NextPipeline]_vars

SpecViews == InitViews /\ [][NextViews]_vars

----------------------------------------------------------------------------
(* Properties *)

Rows == 1..Len(results_reduced)
LastRow == results_reduced[Len(results_reduced)]
InLoop == pc # "start" /\ month >= 1
(* no cohort is over-logged *)
NonNegativeTotals ==
    /\ args.total_TW_backlog >= 0
    /\ args.total_NANC_backlog >= 0
    /\ args.total_backlog - args.total_TW_backlog - args.total_NANC_backlog >= 0

(* C1: in every emitted row, TW_Backlog, NANC_Backlog and AC_Backlog are >= 0,
   whatever the initial cohort totals and the shift schedule. *)
C1_BalancesNonNegative ==
    \A i \in Rows :
        /\ results_reduced[i].TW_Backlog >= 0
        /\ results_reduced[i].NANC_Backlog >= 0
        /\ results_reduced[i].AC_Backlog >= 0

(* C2: once a row has Tailwind_Active = FALSE, every later row has it FALSE:
   the rows are an active prefix followed by a removed suffix. *)
C2_ActivePrefix ==
    \A i, j \in Rows :
        (i < j /\ ~results_reduced[i].Tailwind_Active)
            => ~results_reduced[j].Tailwind_Active

(* a removal row followed by a later month whose own check would not trigger *)
C2_Witness ==
    /\ InLoop
    /\ ~locals.started_active
    /\ locals.total_b > args.removal_threshold_months * locals.total_cap_current
    /\ \E i \in Rows : results_reduced[i].Tailwind_Active
    /\ ~LastRow.Tailwind_Active

Residual == args.total_backlog - args.total_TW_backlog - args.total_NANC_backlog

(* C3 as stated: the three balances of the month-0 row add up to total_backlog
   for every combination of the three totals. *)
C3_Month0SumIsTotal ==
    pc # "start" =>
        results_reduced[1].TW_Backlog + results_reduced[1].NANC_Backlog
            + results_reduced[1].AC_Backlog = Ticks(args.total_backlog)

(* C3 amended: the balances of the month-0 row add up to total_backlog when
   total_backlog - total_TW_backlog - total_NANC_backlog >= 0; when that
   residual is negative AC_Backlog is 0 and the sum is
   total_TW_backlog + total_NANC_backlog. *)
C3_Month0Sum ==
    pc # "start" =>
        LET r0 == results_reduced[1]
            sum == r0.TW_Backlog + r0.NANC_Backlog + r0.AC_Backlog
        IN  /\ r0.Month = 0
            /\ Residual >= 0 => sum = Ticks(args.total_backlog)
            /\ Residual < 0 =>
                /\ r0.AC_Backlog = 0
                /\ sum = Ticks(args.total_TW_backlog + args.total_NANC_backlog)

C3_Witness ==
    /\ pc # "start"
    /\ Residual > 0
    /\ args.total_NANC_backlog > 0
    /\ results_reduced[1].AC_Backlog = Ticks(Residual)

(* C4: in every month, initial NANC_Backlog minus the current NANC_Backlog is
   the sum of the min(Blocked balance, scheduled hours) of the shifts applied
   so far, and a shift never leaves NANC_Backlog negative. *)
C4_ShiftConservation ==
    pc # "start" =>
        /\ InitNANC(args) - NANC_b = shifted_out
        /\ results_reduced[1].NANC_Backlog - LastRow.NANC_Backlog = shifted_out
        /\ (month >= 1 /\ locals.shift > 0) => NANC_b >= 0

(* a shift larger than the balance it finds, after an earlier shift *)
C4_Witness ==
    /\ InLoop
    /\ locals.shift > locals.NANC_b_start
    /\ locals.NANC_b_start > 0
    /\ locals.NANC_b_start < InitNANC(args)
    /\ NANC_b = 0

(* C5: in a month that starts Active, Actionable is burned by
   min(start balance, Q2 capacity x q2_capacity_to_q2_pct), and the Tailwind
   burn capacity holds part of that allocation only when the post-burn
   Actionable balance is 0. *)
C5_ActionableFirst ==
    (InLoop /\ locals.started_active) =>
        LET alloc == (Q2_capacity_full(args) * args.q2_capacity_to_q2_pct) \div PctDen
            own == TWCapCurrent(args, TRUE, month) + Q2_capacity_full(args) - alloc
        IN  /\ locals.AC_burn = Min(locals.AC_b_start, alloc)
            /\ locals.AC_b_after_burn = locals.AC_b_start - locals.AC_burn
            /\ locals.AC_b_after_burn > 0 =>
                /\ locals.TW_cap_current + locals.effective_Q2_cap_to_TW = own
                /\ locals.TW_burn <= own
            /\ locals.TW_burn <= own + (alloc - locals.AC_burn)

(* Actionable ran dry and Tailwind burned more than its own capacity *)
C5_Witness ==
    /\ InLoop
    /\ locals.started_active
    /\ locals.AC_b_start > 0
    /\ locals.AC_b_after_burn = 0
    /\ locals.TW_burn > locals.TW_cap_current + locals.Q2_cap_to_TW

(* C6: in every row Backlog_Months is None exactly when the capacity used as
   its denominator is 0 and is total backlog / capacity otherwise (month 0 and
   the recomputed removal row included); a None coverage never triggers
   removal. *)
C6_CoverageNullOnZeroCapacity ==
    /\ \A i \in Rows :
        LET r == results_reduced[i]
        IN  /\ r.Total_Capacity = 0 <=> r.Backlog_Months = None
            /\ r.Total_Capacity # 0 =>
                r.Backlog_Months = <<r.Total_Backlog, r.Total_Capacity>>
    /\ pc # "start" =>
        results_reduced[1].Total_Capacity = TW_capacity(args) + Q2_capacity_full(args)
    /\ (InLoop /\ locals.removed) => LastRow.Total_Capacity = Q2_capacity_full(args)
    /\ (InLoop /\ locals.total_cap_current = 0) =>
        /\ tailwind_active = locals.started_active
        /\ LastRow.Tailwind_Active = locals.started_active

(* a removal month whose recomputed Q2-only denominator is 0 *)
C6_Witness ==
    /\ InLoop
    /\ locals.removed
    /\ LastRow.Total_Capacity = 0
    /\ LastRow.Backlog_Months = None
    /\ results_reduced[1].Backlog_Months # None

(* C7: removal happens in the first month at which, after burn, incoming and
   shift, (TW + NANC + AC) / (current TW capacity + Q2 capacity) is at or below
   the threshold; that month's row has Tailwind_Active = FALSE, TW_Backlog = 0,
   AC_Backlog increased by the transferred Tailwind balance, Q2-only
   Total_Capacity and the coverage recomputed with it; no earlier row shows
   Tailwind_Active = FALSE. *)
C7_RemovalMonth ==
    (InLoop /\ locals.started_active) =>
        LET cap == TWCapCurrent(args, TRUE, month) + Q2_capacity_full(args)
            tot == locals.TW_b_shifted + locals.NANC_b_shifted + locals.AC_b_shifted
            crossed == cap > 0 /\ tot <= args.removal_threshold_months * cap
            q2 == Q2_capacity_full(args)
            r == LastRow
        IN  /\ \A i \in 1..(Len(results_reduced) - 1) :
                results_reduced[i].Tailwind_Active
            /\ r.Month = month
            /\ r.Tailwind_Active = ~crossed
            /\ tailwind_active = ~crossed
            /\ crossed =>
                /\ r.TW_Backlog = 0
                /\ r.AC_Backlog = locals.AC_b_before_transfer + locals.TW_b_transferred
                /\ ~args.model_diff_demand_after_removal =>
                    r.AC_Backlog = locals.AC_b_shifted + locals.TW_b_shifted
                /\ r.Total_Capacity = q2
                /\ r.Total_Backlog = r.TW_Backlog + r.NANC_Backlog + r.AC_Backlog
                /\ r.Backlog_Months =
                    (IF q2 > 0 THEN <<r.Total_Backlog, q2>> ELSE None)

(* removal in a month after the first, with a Tailwind balance to transfer and
   both teams staffed *)
C7_Witness ==
    /\ InLoop
    /\ month >= 2
    /\ locals.removed
    /\ locals.TW_b_transferred > 0
    /\ locals.TW_cap_current > 0
    /\ LastRow.Backlog_Months # None
    /\ LastRow.AC_Backlog > locals.AC_b_shifted

(* C8: in a month that starts Removed with scheduled shift hours s > 0,
   min(Blocked balance, s) leaves NANC_Backlog and is added to AC_Backlog
   (stated for runs in which no cohort is over-logged). *)
C8_PostRemovalShiftToActionable ==
    (InLoop /\ NonNegativeTotals /\ ~locals.started_active
        /\ Get(tw_shift_map, month) > 0) =>
        LET moved == Min(locals.NANC_b_start, Ticks(Get(tw_shift_map, month)))
        IN  /\ NANC_b = locals.NANC_b_start - moved
            /\ AC_b = locals.AC_b_applied + moved

(* C9: in a month that starts Removed, Actionable receives the whole monthly
   demand: the post-removal figure / 3 when that override is enabled, otherwise
   the figure used before removal (base, or the after-12-months figure from
   month 13 when that override is enabled); stated for runs in which no
   cohort is over-logged. *)
C9_PostRemovalIncoming ==
    (InLoop /\ NonNegativeTotals /\ ~locals.started_active) =>
        LET qtr == IF args.model_diff_demand_after_removal
                   THEN OrElse(args.post_removal_qtr_demand_total, args.qtr_demand_total)
                   ELSE IF args.modify_demand_after_12_months /\ month >= Month13
                        THEN OrElse(args.post_12_qtr_demand_total, args.qtr_demand_total)
                        ELSE args.qtr_demand_total
        IN  /\ locals.AC_incoming_current = (Ticks(qtr) \div 3)
            /\ AC_b = Max(locals.AC_b_after_burn + (Ticks(qtr) \div 3), 0)

(* C10 as stated: with removal_threshold_months = 0 every row has
   Tailwind_Active = TRUE (stated for runs in which no cohort is over-logged). *)
C10_ThresholdZeroNeverRemoves ==
    (args.removal_threshold_months = 0 /\ NonNegativeTotals) =>
        /\ tailwind_active
        /\ \A i \in Rows : results_reduced[i].Tailwind_Active

(* C10 amended: with removal_threshold_months = 0 Tailwind stays active through
   every month whose total backlog after burn, incoming and shift is > 0 (or
   whose capacity is 0), and is removed in the first month in which that total
   is <= 0 with positive capacity. *)
C10_ThresholdZero ==
    (InLoop /\ args.removal_threshold_months = 0 /\ locals.started_active) =>
        LET cap == TWCapCurrent(args, TRUE, month) + Q2_capacity_full(args)
            tot == locals.TW_b_shifted + locals.NANC_b_shifted + locals.AC_b_shifted
        IN  /\ (tot > 0 \/ cap = 0) => (tailwind_active /\ LastRow.Tailwind_Active)
            /\ (tot <= 0 /\ cap > 0) => (~tailwind_active /\ ~LastRow.Tailwind_Active)
            /\ \A i \in 1..(Len(results_reduced) - 1) :
                results_reduced[i].Tailwind_Active

(* threshold 0: the backlog is burned down to exactly 0 after the first month
   and Tailwind is removed in that month *)
C10_Witness ==
    /\ InLoop
    /\ args.removal_threshold_months = 0
    /\ month >= 2
    /\ locals.total_cap_current > 0
    /\ locals.TW_b_start > 0
    /\ locals.total_b = 0
    /\ locals.removed
    /\ ~LastRow.Tailwind_Active

(* Scenario A: TW backlog 1000, nothing else, 6 FTE at 0.78, no permanent team,
   no demand, horizon 3, threshold 0, empty schedule *)
IsScenarioA ==
    /\ args.total_backlog = 1000 /\ args.total_TW_backlog = 1000
    /\ args.total_NANC_backlog = 0
    /\ args.tw_headcount = 6 /\ args.q2_headcount = 0 /\ args.utilization = 78
    /\ args.qtr_demand_total = 0 /\ args.months = 3
    /\ args.removal_threshold_months = 0
    /\ shift_map_in = <<>>

(* tenths of an hour *)
Tenths(t) == t * (Scale \div 10)

(* C11 as stated: in Scenario A the monthly Temporary capacity is about 1012.8,
   TW_Backlog is 0 in the rows of months 1, 2 and 3, and removal triggers at
   month 1. *)
C11_ScenarioAAsStated ==
    (IsScenarioA /\ pc = "done") =>
        /\ TW_capacity(args) >= Tenths(10128) - Ticks(1)
        /\ TW_capacity(args) <= Tenths(10128) + Ticks(1)
        /\ \A i \in 2..4 : results_reduced[i].TW_Backlog = 0
        /\ ~results_reduced[2].Tailwind_Active

(* C11 amended: in Scenario A the monthly Temporary capacity is
   6 x (2080 / 12) x 0.78 = 811.2, the month-1 row has TW_Backlog = 188.8 and
   Tailwind_Active = TRUE, TW_Backlog is 0 in months 2 and 3, and removal
   triggers at month 2. *)
C11_ScenarioA ==
    (IsScenarioA /\ pc = "done") =>
        /\ Len(results_reduced) = 4
        /\ TW_capacity(args) = Tenths(8112)
        /\ results_reduced[1].Total_Capacity = Tenths(8112)
        /\ results_reduced[2].TW_Backlog = Tenths(1888)
        /\ results_reduced[2].Tailwind_Active
        /\ results_reduced[3].TW_Backlog = 0
        /\ ~results_reduced[3].Tailwind_Active
        /\ results_reduced[4].TW_Backlog = 0
        /\ ~results_reduced[4].Tailwind_Active
        /\ \A i \in 1..4 : results_reduced[i].NANC_Backlog = 0
                            /\ results_reduced[i].AC_Backlog = 0

C11_Witness ==
    /\ IsScenarioA
    /\ pc = "done"
    /\ month = 3
    /\ ~tailwind_active

(* build_backlog_views has returned *)
Viewed == df # <<>> /\ pc # "views"

SameMonth(date, t) == date[1] = t[1] /\ date[2] = t[2]

(* Blocked work orders with a contingency link, a go-live date and backlog > 0 *)
EligibleOrders ==
    {c \in DOMAIN df :
        /\ df[c].team = ProductSDK /\ df[c].status = PendingGA
        /\ df[c].subtype = ProServ
        /\ df[c].link # None /\ df[c].date # None
        /\ Backlog(df[c]) > 0}

(* C12 as stated: an eligible Blocked order whose go-live date lies anywhere in
   today's calendar month gets month offset 0 and shift month 1; alone, with
   backlog 100, it yields the schedule {1: 100}. *)
C12_SameMonthAsStated ==
    Viewed =>
        \A c \in EligibleOrders :
            SameMonth(df[c].date, today) =>
                /\ c \in DOMAIN views.eligible
                /\ views.eligible[c].GoLive_Month_Offset = 0
                /\ views.eligible[c].Shift_Month = 1
                /\ (Len(df) = 1 /\ Backlog(df[c]) = 100) =>
                    views.tw_shift_map = (1 :> 100)

(* C12 amended: an eligible Blocked order whose go-live date lies in today's
   calendar month on or after today gets offset 0 and shift month 1 (alone,
   with backlog 100: {1: 100}); one whose go-live date is earlier in that month
   than today is moved to the first of next month and gets offset 1 and shift
   month 2 ({2: 100}). *)
C12_SameMonth ==
    Viewed =>
        \A c \in EligibleOrders :
            SameMonth(df[c].date, today) =>
                /\ c \in DOMAIN views.eligible
                /\ ~DateLT(df[c].date, today) =>
                    /\ views.eligible[c].GoLive_Month_Offset = 0
                    /\ views.eligible[c].Shift_Month = 1
                    /\ (Len(df) = 1 /\ Backlog(df[c]) = 100) =>
                        views.tw_shift_map = (1 :> 100)
                /\ DateLT(df[c].date, today) =>
                    /\ views.eligible[c].GoLive_Month_Offset = 1
                    /\ views.eligible[c].Shift_Month = 2
                    /\ (Len(df) = 1 /\ Backlog(df[c]) = 100) =>
                        views.tw_shift_map = (2 :> 100)

(* a single order with go-live later in today's month *)
C12_Witness ==
    /\ Viewed
    /\ Len(df) = 1
    /\ 1 \in EligibleOrders
    /\ SameMonth(df[1].date, today)
    /\ DateLT(today, df[1].date)
    /\ views.tw_shift_map = (1 :> 100)

(* the frame with the go-live date of order c replaced *)
WithDate(data, c, date) == [data EXCEPT ![c].date = date]

(* C19: an eligible Blocked order whose go-live date is strictly before today
   stays in the schedule and is scheduled exactly as if its go-live date were
   the first day of the calendar month after today's, whatever the month or
   year of the original date. *)
C19_PastDueClampedForward ==
    Viewed =>
        \A c \in EligibleOrders :
            DateLT(df[c].date, today) =>
                LET next == IF today[2] = 12 THEN <<today[1] + 1, 1, 1>>
                            ELSE <<today[1], today[2] + 1, 1>>
                    asif == BuildViewsResult(WithDate(df, c, next), today)
                IN  /\ c \in DOMAIN views.eligible
                    /\ views.eligible[c].GoLive = next
                    /\ views.eligible[c].GoLive_Month_Offset = 1
                    /\ views.eligible[c].Shift_Month = 2
                    /\ 2 \in DOMAIN views.tw_shift_map
                    /\ views.tw_shift_map[2] >= Backlog(df[c])
                    /\ views.eligible = asif.eligible
                    /\ views.tw_shift_map = asif.tw_shift_map

(* a go-live date of the previous year, today on 1 January, next to an order
   that is not past due *)
C19_Witness ==
    /\ Viewed
    /\ today = <<2026, 1, 1>>
    /\ \E c \in EligibleOrders :
        /\ df[c].date[1] = 2025
        /\ views.eligible[c].GoLive = <<2026, 2, 1>>
    /\ \E c \in EligibleOrders : ~DateLT(df[c].date, today)

(* C20: no record satisfies both the Temporary and the Blocked predicate, both
   cohorts lie inside the in-scope set, so every in-scope record is in exactly
   one of Temporary, Blocked and the Actionable residual, and Work_Category
   names that same cohort. *)
C20_CohortsPartition ==
    Viewed =>
        LET T == views.allTWWOs
            B == views.allNANCWOs
            A == views.allWOs \ (T \cup B)
        IN  /\ T \cap B = {}
            /\ T \subseteq views.allWOs
            /\ B \subseteq views.allWOs
            /\ DOMAIN views.allwo_export = views.allWOs
            /\ \A c \in views.allWOs :
                /\ (c \in T) <=> (views.allwo_export[c] = "Tailwind")
                /\ (c \in B) <=> (views.allwo_export[c] = "Non-Actionable")
                /\ (c \in A) <=> (views.allwo_export[c] = "Actionable")
            /\ \A c \in DOMAIN df :
                /\ (c \in T) <=>
                    (df[c].team = Wedge /\ df[c].status \notin TerminalStatuses
                        /\ df[c].subtype = ProServ)
                /\ (c \in B) <=>
                    (df[c].team = ProductSDK /\ df[c].status = PendingGA
                        /\ df[c].subtype = ProServ)

(* a Pending GA order of the temporary team next to a Product SDK order that is
   not Pending GA *)
C20_Witness ==
    /\ Viewed
    /\ \E c \in views.allTWWOs : df[c].status = PendingGA
    /\ \E c \in views.allWOs :
        /\ df[c].team = ProductSDK
        /\ views.allwo_export[c] = "Actionable"

(* the model is running on unpacked views *)
Unpacked == Viewed /\ pc \notin {"unpack", "start"}

(* Blocked orders *)
BlockedCodes ==
    {c \in DOMAIN df : df[c].team = ProductSDK /\ df[c].status = PendingGA
                        /\ df[c].subtype = ProServ}

(* Blocked orders without a contingency link or without a go-live date *)
IneligibleOrders == {c \in BlockedCodes : df[c].link = None \/ df[c].date = None}

IneligibleBacklog ==
    SumFn([c \in DOMAIN df |-> IF c \in IneligibleOrders THEN Backlog(df[c]) ELSE 0],
          Len(df))

(* C18 as stated: orders without link or date are in no schedule entry and
   NANC_Backlog is at least their summed backlog in every row, for any mix of
   eligible, ineligible and over-logged Blocked orders. *)
C18_IneligibleStayBlockedAsStated ==
    (Unpacked /\ NonNegativeTotals) =>
        /\ IneligibleOrders \cap DOMAIN views.eligible = {}
        /\ \A i \in Rows : results_reduced[i].NANC_Backlog >= Ticks(IneligibleBacklog)

(* C18 amended: orders without link or date are in no schedule entry, the
   schedule sums the backlog of the eligible orders only, and NANC_Backlog is at
   least the summed backlog of the ineligible orders in every row, provided no
   Blocked order that has both a link and a go-live date is over-logged. *)
C18_IneligibleStayBlocked ==
    Unpacked =>
        /\ IneligibleOrders \cap DOMAIN views.eligible = {}
        /\ SumFn([m \in 1..(MaxMonths + 12) |-> Get(views.tw_shift_map, m)],
                 MaxMonths + 12)
            = SumFn([c \in DOMAIN df |->
                        IF c \in EligibleOrders THEN Backlog(df[c]) ELSE 0], Len(df))
        /\ (\A c \in BlockedCodes \ IneligibleOrders : Backlog(df[c]) >= 0) =>
            \A i \in Rows : results_reduced[i].NANC_Backlog >= Ticks(IneligibleBacklog)

(* an eligible order has been shifted, an ineligible one stays behind *)
C18_Witness ==
    /\ Unpacked
    /\ pc = "done"
    /\ IneligibleBacklog > 0
    /\ \A c \in BlockedCodes : Backlog(df[c]) >= 0
    /\ shifted_out > 0
    /\ NANC_b = Ticks(IneligibleBacklog)

(* C13: a second run with identical inputs returns the same rows, also when it
   is given the dict object of the first run and that dict had a month-0 entry. *)
C13_RerunSameRows ==
    (pc = "done" /\ prev_results # <<>>) => results_reduced = prev_results

(* the second run was given the dict in which the first run had folded a month-0
   entry into month 1 (two entries of 150 hours), and a shift took place *)
C13_Witness ==
    /\ pc = "done"
    /\ prev_results # <<>>
    /\ DOMAIN shift_map_in = {1}
    /\ shift_map_in[1] = 300
    /\ shifted_out > 0
    /\ Len(results_reduced) > 2

(* C15 as stated: after the run the schedule has the keys and values it was
   given. *)
C15_ScheduleUnmodified ==
    pc = "done" => tw_shift_map = shift_map_in

(* C16: the month-0 row holds the initial balances with Tailwind_Active true,
   and the hours under month 0 are applied in month 1 together with month 1's. *)
C16_Month0Snapshot ==
    pc # "start" =>
        LET r0 == results_reduced[1]
            due == Ticks(Get(shift_map_in, 0) + Get(shift_map_in, 1))
        IN  /\ r0.Month = 0
            /\ r0.TW_Backlog = InitTW(args)
            /\ r0.NANC_Backlog = InitNANC(args)
            /\ r0.AC_Backlog = InitAC(args)
            /\ r0.Total_Backlog = InitTW(args) + InitNANC(args) + InitAC(args)
            /\ r0.Tailwind_Active = TRUE
            /\ month = 1 => locals.shift = due
            /\ Len(results_reduced) >= 2 =>
                results_reduced[2].NANC_Backlog
                    = r0.NANC_Backlog - ActualShift(r0.NANC_Backlog, due)

(* a month-0 entry of 150 hours, none under month 1, moved in month 1 *)
C16_Witness ==
    /\ pc # "start"
    /\ 0 \in DOMAIN shift_map_in
    /\ 1 \notin DOMAIN shift_map_in
    /\ Len(results_reduced) >= 2
    /\ results_reduced[1].NANC_Backlog = Ticks(200)
    /\ results_reduced[2].NANC_Backlog = Ticks(50)

(* a horizon below one month or a negative headcount *)
Inconsistent(a) == a.months < 1 \/ a.tw_headcount < 0 \/ a.q2_headcount < 0

(* C14 as stated: a run with horizon_months < 1 or a negative FTE is rejected
   before the simulation starts, so no row is produced, not even month 0. *)
C14_InconsistentRejected ==
    Inconsistent(args) => results_reduced = <<>>

(* appended rows only: the rows so far are a prefix of the rows after a step *)
AppendOnly ==
    /\ Len(results_reduced') >= Len(results_reduced)
    /\ SubSeq(results_reduced', 1, Len(results_reduced)) = results_reduced

(* C17: for every horizon N >= 1 the run terminates with exactly N + 1 rows
   whose Month values are 0, 1, ..., N; rows are only appended, never
   rewritten, and the removal of the temporary team does not shorten the run. *)
C17_TerminatesWithAllRows ==
    /\ <>(pc = "done")
    /\ [](pc = "done" =>
            /\ args.months >= 1
            /\ Len(results_reduced) = args.months + 1)
    /\ [](\A i \in Rows : results_reduced[i].Month = i - 1)
    /\ [][AppendOnly]_vars

(* a finished run of the longest horizon whose team was removed before the end *)
C17_Witness ==
    /\ pc = "done"
    /\ args.months = MaxMonths
    /\ Len(results_reduced) = MaxMonths + 1
    /\ ~results_reduced[MaxMonths].Tailwind_Active

(* C21 as stated: NANC_Backlog never rises from one row to the next, and it
   changes only in a month that has a positive scheduled shift. *)
C21_BlockedNonIncreasing ==
    \A i \in Rows \ {1} :
        /\ results_reduced[i].NANC_Backlog <= results_reduced[i - 1].NANC_Backlog
        /\ results_reduced[i].NANC_Backlog # results_reduced[i - 1].NANC_Backlog
            => Get(tw_shift_map, i - 1) > 0

(* the month's iteration run from the same start state with an empty schedule *)
Unshifted ==
    MonthLocals(args, <<>>, month, locals.TW_b_start, locals.NANC_b_start,
                locals.AC_b_start, locals.started_active)

(* C23: in a month that starts Active with scheduled hours s > 0, exactly
   min(NANC balance, s) leaves NANC_Backlog and is added to the Temporary balance
   after burn and incoming; when removal does not trigger, the row has NANC lower
   and TW higher by that amount than the row of the same month without the shift. *)
C23_ShiftMovesBlockedToTemporary ==
    (InLoop /\ locals.started_active /\ Get(tw_shift_map, month) > 0) =>
        LET moved == Min(locals.NANC_b_start, Ticks(Get(tw_shift_map, month)))
            plain == MonthRow(args, month, Unshifted)
        IN  /\ locals.NANC_b_shifted = locals.NANC_b_start - moved
            /\ locals.TW_b_shifted
                = Max(locals.TW_b_start - locals.TW_burn + locals.TW_incoming_current, 0)
                    + moved
            /\ locals.AC_b_shifted = Unshifted.AC_b_shifted
            /\ locals.removed = Unshifted.removed
            /\ ~locals.removed =>
                /\ LastRow.NANC_Backlog = plain.NANC_Backlog - moved
                /\ LastRow.TW_Backlog = plain.TW_Backlog + moved
                /\ LastRow.AC_Backlog = plain.AC_Backlog

(* a shift of the whole scheduled 150 hours in a month that stays Active *)
C23_Witness ==
    /\ InLoop
    /\ locals.started_active
    /\ ~locals.removed
    /\ locals.NANC_b_start = Ticks(200)
    /\ LastRow.NANC_Backlog = Ticks(50)
    /\ LastRow.TW_Backlog >= Ticks(150)

(* C24: while Active the Temporary capacity of month m is the base capacity when
   tw_capacity_reduction_month is 0 or m is before it, and exactly half the base
   capacity in every month from it on, without compounding. *)
C24_CapacityHalvedOnce ==
    (InLoop /\ locals.started_active) =>
        LET red == args.tw_capacity_reduction_month
        IN  /\ (red = 0 \/ month < red) => locals.TW_cap_current = TW_capacity(args)
            /\ (red > 0 /\ month >= red) =>
                    2 * locals.TW_cap_current = TW_capacity(args)
            /\ locals.total_cap_current
                = locals.TW_cap_current + Q2_capacity_full(args)

(* the month after the reduction month, still Active, at half the capacity *)
C24_Witness ==
    /\ InLoop
    /\ locals.started_active
    /\ args.tw_headcount > 0
    /\ args.tw_capacity_reduction_month > 0
    /\ month > args.tw_capacity_reduction_month
    /\ 2 * locals.TW_cap_current = TW_capacity(args)

(* C26: in every month that starts Removed, Temporary capacity and incoming are
   0 and TW_Backlog stays 0, every row with Tailwind_Active = false has
   TW_Backlog = 0, and Actionable is burned by min(balance, full permanent
   capacity) whatever q2_capacity_to_q2_pct is. *)
C26_RemovedState ==
    /\ \A i \in Rows : ~results_reduced[i].Tailwind_Active =>
            results_reduced[i].TW_Backlog = 0
    /\ (InLoop /\ ~locals.started_active) =>
        /\ locals.TW_cap_current = 0
        /\ locals.TW_incoming_current = 0
        /\ locals.TW_b_start = 0
        /\ locals.TW_burn = 0
        /\ TW_b = 0
        /\ LastRow.TW_Backlog = 0
        /\ locals.AC_burn = Min(locals.AC_b_start, Q2_capacity_full(args))
        /\ LastRow.Total_Capacity = Q2_capacity_full(args)

(* a Removed month that burns the whole permanent capacity under a 50% slider *)
C26_Witness ==
    /\ InLoop
    /\ ~locals.started_active
    /\ args.q2_capacity_to_q2_pct < PctDen
    /\ Q2_capacity_full(args) > 0
    /\ locals.AC_burn = Q2_capacity_full(args)

(* C28: in every month the two burns together stay within Temporary plus
   permanent capacity; for non-negative inputs each burn is >= 0 and at most the
   start balance; while Active the Actionable burn is at most permanent capacity
   x q2_capacity_to_q2_pct, also when the Temporary balance is 0. *)
C28_BurnWithinCapacity ==
    InLoop =>
        /\ locals.AC_burn + locals.TW_burn
            <= locals.TW_cap_current + locals.Q2_cap_current
        /\ NonNegativeTotals =>
            /\ locals.AC_burn >= 0 /\ locals.AC_burn <= locals.AC_b_start
            /\ locals.TW_burn >= 0 /\ locals.TW_burn <= locals.TW_b_start
        /\ locals.started_active =>
            locals.AC_burn * PctDen
                <= Q2_capacity_full(args) * args.q2_capacity_to_q2_pct

(* an Active month with no Temporary backlog in which Actionable wants more
   than its share of the permanent capacity *)
C28_Witness ==
    /\ InLoop
    /\ NonNegativeTotals
    /\ locals.started_active
    /\ locals.TW_b_start = 0
    /\ args.q2_capacity_to_q2_pct < PctDen
    /\ locals.AC_b_start > locals.Q2_cap_to_AC
    /\ locals.AC_burn = locals.Q2_cap_to_AC
    /\ locals.AC_burn > 0

(* C29: with the post-removal override disabled, Total_Backlog(m) is
   Total_Backlog(m-1) minus the two burns plus the month's incoming demand, in
   shift and removal months too, and Total_Backlog is the sum of the three
   balance columns in every row. *)
C29_TotalConserved ==
    /\ \A i \in Rows :
        results_reduced[i].Total_Backlog
            = results_reduced[i].TW_Backlog + results_reduced[i].NANC_Backlog
                + results_reduced[i].AC_Backlog
    /\ (InLoop /\ ~args.model_diff_demand_after_removal) =>
        LastRow.Total_Backlog
            = results_reduced[month].Total_Backlog
                - locals.AC_burn - locals.TW_burn
                + locals.TW_incoming_current + locals.AC_incoming_current

(* a removal month with a shift, a burn and incoming demand, override disabled *)
C29_Witness ==
    /\ InLoop
    /\ ~args.model_diff_demand_after_removal
    /\ locals.removed
    /\ locals.actual_shift > 0
    /\ locals.AC_burn > 0
    /\ locals.AC_incoming_current > 0
    /\ LastRow.Total_Backlog # results_reduced[month].Total_Backlog

(* post_removal_qtr_demand_total / 3, or qtr_demand_total / 3 without a value *)
PostRemovalMonthly ==
    (IF args.post_removal_qtr_demand_total # None
     THEN args.post_removal_qtr_demand_total[1]
     ELSE args.qtr_demand_total) * (Scale \div 3)

(* C27: when removal triggers in month m with the post-removal override enabled,
   AC_Backlog(m) = Actionable after burn + post-removal monthly demand +
   Temporary balance after burn and shift without its incoming, and TW_Backlog(m)
   is 0. *)
C27_RemovalMonthOverride ==
    (InLoop /\ locals.removed /\ args.model_diff_demand_after_removal) =>
        /\ LastRow.TW_Backlog = 0
        /\ LastRow.AC_Backlog
            = (locals.AC_b_start - locals.AC_burn) + PostRemovalMonthly
                + (locals.TW_b_start - locals.TW_burn + locals.actual_shift)

(* the quarterly demand C25 names for the current month *)
StatedQtrDemand ==
    IF args.modify_demand_after_12_months /\ month >= Month13
    THEN IF args.post_12_qtr_demand_total # None
         THEN args.post_12_qtr_demand_total[1]
         ELSE args.qtr_demand_total
    ELSE args.qtr_demand_total

(* C25: while Active, months 1..12 use the base quarterly demand and, with the
   after-12-months option set, every month >= 13 uses the alternate figure (the
   base figure when none is supplied); the monthly incoming is quarterly / 3,
   split as share to Temporary and (1 - share) to Actionable. *)
C25_DemandAfterMonth12 ==
    (InLoop /\ locals.started_active) =>
        /\ locals.TW_incoming_current * 3 * PctDen
            = StatedQtrDemand * args.tw_share_of_demand * Scale
        /\ locals.AC_incoming_current * 3 * PctDen
            = StatedQtrDemand * (PctDen - args.tw_share_of_demand) * Scale
        /\ locals.TW_incoming_current + locals.AC_incoming_current
            = StatedQtrDemand * (Scale \div 3)

(* month 13 starts Active and takes its incoming from the alternate figure *)
C25_Witness ==
    /\ InLoop
    /\ month = Month13
    /\ locals.started_active
    /\ args.modify_demand_after_12_months
    /\ args.post_12_qtr_demand_total = Some(600)
    /\ args.qtr_demand_total # 600
    /\ args.tw_share_of_demand > 0
    /\ locals.TW_incoming_current + locals.AC_incoming_current = Ticks(200)

(* backlog hours of the eligible orders whose go-live month offset is k *)
MaturedAt(k) ==
    SumFn([c \in DOMAIN df |->
            IF c \in DOMAIN views.eligible
               /\ Max(views.eligible[c].GoLive_Month_Offset, 0) = k
            THEN views.eligible[c].Backlog ELSE 0], Len(df))

(* C22 as stated: the hours of an order with go-live month offset k are part
   of the Temporary balance against which the burn of month k + 1 is computed. *)
C22_BurnableInShiftMonthAsStated ==
    (Unpacked /\ NonNegativeTotals /\ InLoop /\ locals.started_active
        /\ MaturedAt(month - 1) > 0) =>
        locals.TW_burn
            = Min(locals.TW_b_start + locals.actual_shift,
                  locals.TW_cap_current + locals.effective_Q2_cap_to_TW)

(* C22 amended: the hours of an order with go-live month offset k are the
   scheduled shift of month k + 1; the burn of that month is computed against the
   balance the previous row shows, without them; they are added after burn and
   incoming, appear in the row of month k + 1 and are in the balance the burn of
   month k + 2 is computed against. *)
C22_BurnableAfterShiftMonth ==
    (Unpacked /\ InLoop) =>
        /\ locals.TW_b_start = results_reduced[month].TW_Backlog
        /\ locals.started_active =>
            /\ locals.shift = Ticks(MaturedAt(month - 1))
            /\ locals.TW_burn
                = Min(locals.TW_b_start,
                      locals.TW_cap_current + locals.effective_Q2_cap_to_TW)
            /\ locals.TW_b_shifted
                = Max(locals.TW_b_start - locals.TW_burn
                        + locals.TW_incoming_current, 0) + locals.actual_shift
            /\ ~locals.removed =>
                /\ LastRow.TW_Backlog = locals.TW_b_shifted
                /\ TW_b = locals.TW_b_shifted

(* month 2 with idle Temporary capacity: the 100 hours that matured at offset 1
   arrive after the burn and stay in the balance *)
C22_Witness ==
    /\ Unpacked
    /\ InLoop
    /\ month = 2
    /\ locals.started_active
    /\ ~locals.removed
    /\ MaturedAt(1) = 100
    /\ locals.TW_b_start = 0
    /\ locals.TW_cap_current > 0
    /\ locals.TW_burn = 0
    /\ TW_b = Ticks(100)

RECURSIVE SumKeys(_, _)
(* the sum of the values a dict holds under the keys ks *)
SumKeys(map, ks) ==
    IF ks = {} THEN 0
    ELSE LET k == CHOOSE x \in ks : TRUE
         IN  map[k] + SumKeys(map, ks \ {k})

(* C30: in the schedule build_backlog_views returns every key is an integer
   >= 1 and every value is > 0, Blocked orders with backlog <= 0 are left out,
   and the values sum to the backlog of the eligible orders. *)
C30_SchedulePositive ==
    Viewed =>
        /\ \A m \in DOMAIN views.tw_shift_map :
            /\ m \in Nat /\ m >= 1
            /\ views.tw_shift_map[m] > 0
        /\ DOMAIN views.eligible = EligibleOrders
        /\ \A c \in BlockedCodes : Backlog(df[c]) <= 0 => c \notin DOMAIN views.eligible
        /\ SumKeys(views.tw_shift_map, DOMAIN views.tw_shift_map)
            = SumFn([c \in DOMAIN df |->
                        IF c \in EligibleOrders THEN Backlog(df[c]) ELSE 0], Len(df))

(* an over-logged Blocked order with link and date next to an eligible one *)
C30_Witness ==
    /\ Viewed
    /\ \E c \in BlockedCodes :
        /\ df[c].link # None /\ df[c].date # None
        /\ Backlog(df[c]) < 0
    /\ EligibleOrders # {}
    /\ SumKeys(views.tw_shift_map, DOMAIN views.tw_shift_map) = 100

====
